---- MODULE Spec2Model ----
(***************************************************************************)
(* Model of the Forkable lunch endpoint (convex/forkable.ts): the session  *)
(* cache (getCachedSession / storeCachedSession over the forkable_sessions *)
(* table), the two upstream calls (loginAndGetSession,                     *)
(* fetchLunchWithSession) and the getLunch HTTP action that ties them      *)
(* together.  Every `await` of getLunch is one step of a request, so that  *)
(* concurrent requests interleave exactly where the runtime lets them.     *)
(*                                                                         *)
(* Time is counted in hours: Date.now() is the variable `now`.             *)
(*                                                                         *)
(* Spec is the endpoint under concurrent requests; FairSpec adds that      *)
(* every awaited call returns or fails, FaultSpec that the cache calls    *)
(* may throw as the delivery query may.  FunctionSpec applies the pure     *)
(* parts (formatLunchResponse, fetchLunchWithSession, loginAndGetSession   *)
(* followed by storeCachedSession, and the target date calculation) once   *)
(* each, to a wider range of inputs than the requests of Spec carry.       *)
(***************************************************************************)
EXTENDS Integers, Sequences, FiniteSets, TLC

\* ---------------------------------------------------------------- bounds

\* Date.now() never exceeds MaxTime (the clock stops ticking there).
MaxTime == 1

\* ------------------------------------------------------ program constants

\* One hour, the unit of time of the model (60 * 60 * 1000 ms in the code).
HOUR == 1
\* Safety buffer subtracted from the parsed cookie expiry, in hours.
SAFETY_BUFFER_HOURS == 1
\* Fallback lifetime of a session whose expiry could not be parsed, in hours.
FALLBACK_HOURS == 23

\* ----------------------------------------------------------------- inputs

\* The requests that may be in flight at the same time.
Requests == {"r1", "r2"}

\* Values of FORKABLE_EMAIL the deployment may be configured with ("" = unset).
Emails == {"a@x"}

\* Session values the upstream may put in the _easyorder_session cookie.
Tokens == {"A", "B"}

\* The expiry dates (hours) the upstream may stamp the session cookie with.
CookieDates == {2}

Secret == "s3cret"

\* Authorization headers of an inbound request ("" = no header).
AuthHeaders == {"", "Bearer " \o Secret, "Bearer wrong", "Bearer undefined"}

\* process.env as read by one request ("" = the variable is not set).
Envs ==
    [FORKABLE_AUTH_TOKEN : {"", Secret},
     FORKABLE_EMAIL      : Emails \cup {""},
     FORKABLE_PASSWORD   : {"", "pw"}]

\* JavaScript null, as returned by getCachedSession and loginAndGetSession.
Null == [null |-> TRUE]

SESSION_COOKIE_NAME == "_easyorder_session"

VARIABLES
    now,            \* Date.now(), in hours
    store,          \* the forkable_sessions table, in insertion order
    pc,             \* where each request stands in getLunch
    email,          \* getLunch: const email
    cachedSession,  \* getLunch: const cachedSession
    sessionCookie,  \* getLunch: let sessionCookie
    sessionData,    \* getLunch: const sessionData
    response,       \* the Response getLunch returned
    calls,          \* per request: the cache and upstream calls it made
    lastPut,        \* per account: the arguments of the last storeCachedSession
    inbound,        \* per request: the header and the secret getLunch compared
    input,          \* the argument of a function applied on its own
    output          \* the value the function returned

vars == <<now, store, pc, email, cachedSession, sessionCookie, sessionData,
          response, calls, lastPut, inbound, input, output>>

\* ------------------------------------------------------- Session Cache

\* The rows of `tbl` the by_email index yields for `e`, in index order.
ByEmail(tbl, e) == SelectSeq(tbl, LAMBDA s : s.email = e)

\* getCachedSession comparing with >= : a row expiring at the very time of
\* the call is still returned.
getCachedSession_Inclusive(tbl, e, t) ==
    LET live == SelectSeq(ByEmail(tbl, e), LAMBDA s : s.expiresAt >= t)
    IN  IF live = <<>> THEN Null ELSE Head(live)

\* getCachedSession that finds nothing.
getCachedSession_Miss(tbl, e, t) == Null

\* getCachedSession called at time t: the first row of the account whose
\* expiresAt is greater than t, or null.
getCachedSession(tbl, e, t) ==
    LET live == SelectSeq(ByEmail(tbl, e), LAMBDA s : s.expiresAt > t)
    IN  IF live = <<>> THEN Null ELSE Head(live)

\* The position in `tbl` of the first row of account e (0 when there is none).
FirstIndex(tbl, e) ==
    IF \E i \in 1..Len(tbl) : tbl[i].email = e
    THEN CHOOSE i \in 1..Len(tbl) :
            /\ tbl[i].email = e
            /\ \A j \in 1..(i - 1) : tbl[j].email # e
    ELSE 0

\* ctx.db.delete of the row at position i.
DeleteAt(tbl, i) == SubSeq(tbl, 1, i - 1) \o SubSeq(tbl, i + 1, Len(tbl))

\* storeCachedSession without the delete: the new row is appended.
storeCachedSession_Append(tbl, e, cookie, expiresAt, t) ==
    Append(tbl, [email     |-> e,
                 cookie    |-> cookie,
                 expiresAt |-> expiresAt,
                 createdAt |-> t])

\* storeCachedSession that inserts only when the account has no row yet.
storeCachedSession_KeepOld(tbl, e, cookie, expiresAt, t) ==
    IF FirstIndex(tbl, e) # 0 THEN tbl
    ELSE Append(tbl, [email     |-> e,
                      cookie    |-> cookie,
                      expiresAt |-> expiresAt,
                      createdAt |-> t])

\* storeCachedSession called at time t: one transaction that deletes the
\* first existing row of the account, if any, and inserts the new one.
storeCachedSession(tbl, e, cookie, expiresAt, t) ==
    LET i       == FirstIndex(tbl, e)
        deleted == IF i # 0 THEN DeleteAt(tbl, i) ELSE tbl
    IN  Append(deleted, [email     |-> e,
                         cookie    |-> cookie,
                         expiresAt |-> expiresAt,
                         createdAt |-> t])

\* ------------------------------------------------------ Upstream: login

\* One cookie of a set-cookie header.  expires.kind is "none" when no date
\* of the form "<d> <Mon> <yyyy> <hh>:<mm>:<ss> GMT" follows the value,
\* "invalid" when one does but new Date() cannot parse it, and "date" when
\* it parses to expires.at.
Cookie(name, value, kind, at) ==
    [name |-> name, value |-> value, expires |-> [kind |-> kind, at |-> at]]

\* The set-cookie headers the upstream may answer a login with:
\* no session cookie at all, or a session cookie with each kind of expiry.
SetCookieHeaders ==
    {<<Cookie("other", "1", "none", 0)>>}
    \cup {<<Cookie(SESSION_COOKIE_NAME, v, "none", 0)>> : v \in Tokens}
    \cup {<<Cookie(SESSION_COOKIE_NAME, v, "invalid", 0)>> : v \in Tokens}
    \cup {<<Cookie(SESSION_COOKIE_NAME, v, "date", d * HOUR)>> :
              v \in Tokens, d \in CookieDates}

\* What the login fetch may produce.  throws: fetch rejected or the body is
\* not JSON; setCookie = <<>>: the response carries no set-cookie header.
LoginResponses ==
    {[throws |-> TRUE, ok |-> FALSE, status |-> 0,
      errorAttributes |-> FALSE, setCookie |-> <<>>]}
    \cup {[throws |-> FALSE, ok |-> FALSE, status |-> 500,
           errorAttributes |-> FALSE, setCookie |-> <<>>]}
    \cup {[throws |-> FALSE, ok |-> TRUE, status |-> 200,
           errorAttributes |-> TRUE, setCookie |-> <<>>]}
    \cup {[throws |-> FALSE, ok |-> TRUE, status |-> 200,
           errorAttributes |-> FALSE, setCookie |-> h] :
              h \in SetCookieHeaders \cup {<<>>}}

\* Position of the first _easyorder_session cookie of header h (0 if none).
SessionIndex(h) ==
    IF \E i \in 1..Len(h) : h[i].name = SESSION_COOKIE_NAME
    THEN CHOOSE i \in 1..Len(h) :
            /\ h[i].name = SESSION_COOKIE_NAME
            /\ \A j \in 1..(i - 1) : h[j].name # SESSION_COOKIE_NAME
    ELSE 0

\* The first date pattern of header h at or after position i: the expires of
\* the first cookie from i on that carries one, [kind |-> "none"] otherwise.
DateMatch(h, i) ==
    LET dated == {j \in i..Len(h) : h[j].expires.kind # "none"}
    IN  IF dated = {} THEN [kind |-> "none", at |-> 0]
        ELSE h[CHOOSE j \in dated : \A k \in dated : j <= k].expires

\* ExpiresAt without the safety buffer: the parsed date as it is.
ExpiresAt_NoBuffer(h, i, t) ==
    LET m == DateMatch(h, i)
    IN  IF m.kind = "date"
        THEN m.at
        ELSE t + FALLBACK_HOURS * HOUR

\* The expiresAt loginAndGetSession computes at time t from header h whose
\* session cookie is at position i.
ExpiresAt(h, i, t) ==
    LET m == DateMatch(h, i)
    IN  IF m.kind = "date"
        THEN m.at - SAFETY_BUFFER_HOURS * HOUR
        ELSE t + FALLBACK_HOURS * HOUR

\* loginAndGetSession that goes on without a session cookie when the answer
\* carries none, instead of returning null.
loginAndGetSession_Lenient(resp, t) ==
    IF resp.throws THEN Null
    ELSE IF ~resp.ok THEN Null
    ELSE IF resp.errorAttributes THEN Null
    ELSE IF SessionIndex(resp.setCookie) = 0
    THEN [cookie |-> "", expiresAt |-> t + FALLBACK_HOURS * HOUR]
    ELSE LET i == SessionIndex(resp.setCookie)
         IN  [cookie    |-> SESSION_COOKIE_NAME \o "=" \o resp.setCookie[i].value,
              expiresAt |-> ExpiresAt(resp.setCookie, i, t)]

\* loginAndGetSession at time t, given the upstream's answer: null on every
\* failure (a throw is caught inside), else the session cookie and expiry.
loginAndGetSession(resp, t) ==
    IF resp.throws THEN Null
    ELSE IF ~resp.ok THEN Null
    ELSE IF resp.errorAttributes THEN Null
    ELSE IF resp.setCookie = <<>> THEN Null
    ELSE IF SessionIndex(resp.setCookie) = 0 THEN Null
    ELSE LET i == SessionIndex(resp.setCookie)
         IN  [cookie    |-> SESSION_COOKIE_NAME \o "=" \o resp.setCookie[i].value,
              expiresAt |-> ExpiresAt(resp.setCookie, i, t)]

\* ------------------------------------------- Upstream: delivery query

\* The date getLunch asks the upstream about.
TargetDates == {"2026-11-04"}

\* A GraphQL error object: its message as a sequence of words, and
\* extensions.code ("" when absent).
GraphQLError(words, code) == [message |-> words, code |-> code]

\* One delivery with a single order.
Delivery(date, venue, pieces) ==
    [forDeliveryAt |-> [date |-> date, time |-> "T12:00:00Z"],
     orders |-> <<[venue |-> [displayName |-> venue], pieces |-> pieces]>>]

\* A response of the GraphQL endpoint to the delivery query.  throws: fetch
\* rejected, or the body of a success response is not JSON.
LunchResponse(throws, ok, status, errors, deliveries) ==
    [throws |-> throws, ok |-> ok, status |-> status,
     errors |-> errors, myDeliveries |-> deliveries]

\* What the delivery query may be answered with: a transport failure, a
\* non-success HTTP status, a GraphQL authentication error in a 200 body,
\* or deliveries.
LunchResponses ==
    {LunchResponse(TRUE, FALSE, 0, <<>>, <<>>)}
    \cup {LunchResponse(FALSE, FALSE, st, <<>>, <<>>) : st \in {401, 500}}
    \cup {LunchResponse(FALSE, TRUE, 200,
                        <<GraphQLError(<<"denied">>, "UNAUTHENTICATED")>>, <<>>)}
    \cup {LunchResponse(FALSE, TRUE, 200, <<>>, ds) :
            ds \in {<<>>,
                    <<Delivery("2026-11-04", "Cafe A",
                               <<[name |-> "Sandwich"], [name |-> "Soup"]>>)>>}}

\* error.message?.includes(word)
Includes(words, word) == \E i \in 1..Len(words) : words[i] = word

\* The test fetchLunchWithSession applies to each error of the body.
IsAuthError(error) ==
    \/ Includes(error.message, "unauthenticated")
    \/ Includes(error.message, "unauthorized")
    \/ error.code = "UNAUTHENTICATED"

\* items.filter(Boolean) over piece.name || ""
ItemNames(pieces) ==
    LET names == [i \in 1..Len(pieces) |-> pieces[i].name]
    IN  SelectSeq(names, LAMBDA n : n # "")

\* The {restaurant, items} entries of one delivery's orders.
RECURSIVE OrdersLunch(_)
OrdersLunch(orders) ==
    IF orders = <<>> THEN <<>>
    ELSE LET order == Head(orders)
             rest  == OrdersLunch(Tail(orders))
         IN  IF Len(order.pieces) > 0
             THEN <<[restaurant |-> IF order.venue.displayName # ""
                                    THEN order.venue.displayName
                                    ELSE "Unknown Restaurant",
                     items |-> ItemNames(order.pieces)]>> \o rest
             ELSE rest

\* lunchInfo: the entries of the deliveries dated targetDateStr.
RECURSIVE LunchInfo(_, _)
LunchInfo(deliveries, targetDateStr) ==
    IF deliveries = <<>> THEN <<>>
    ELSE LET d == Head(deliveries)
             rest == LunchInfo(Tail(deliveries), targetDateStr)
         IN  IF d.forDeliveryAt.date = targetDateStr
             THEN OrdersLunch(d.orders) \o rest
             ELSE rest

\* fetchLunchWithSession that catches a rejected fetch and returns it as an
\* error result.
fetchLunchWithSession_CatchesThrow(resp, targetDateStr) ==
    IF resp.throws THEN [error |-> "fetch failed"]
    ELSE IF ~resp.ok
    THEN [error  |-> "Failed to fetch lunch data with status "
                        \o ToString(resp.status),
          status |-> resp.status]
    ELSE IF \E i \in 1..Len(resp.errors) : IsAuthError(resp.errors[i])
    THEN [error |-> "Authentication failed", status |-> 401]
    ELSE [date    |-> targetDateStr,
          lunch   |-> LunchInfo(resp.myDeliveries, targetDateStr),
          success |-> TRUE]

\* fetchLunchWithSession, given the upstream's answer.  A rejected fetch
\* propagates as an exception, modelled as the record [exception |-> ...].
fetchLunchWithSession(resp, targetDateStr) ==
    IF resp.throws THEN [exception |-> "fetch failed"]
    ELSE IF ~resp.ok
    THEN [error  |-> "Failed to fetch lunch data with status "
                        \o ToString(resp.status),
          status |-> resp.status]
    ELSE IF \E i \in 1..Len(resp.errors) : IsAuthError(resp.errors[i])
    THEN [error |-> "Authentication failed", status |-> 401]
    ELSE [date    |-> targetDateStr,
          lunch   |-> LunchInfo(resp.myDeliveries, targetDateStr),
          success |-> TRUE]

\* ---------------------------------------------------- Response Formatter

\* Array.prototype.join
RECURSIVE Join(_, _)
Join(strs, sep) ==
    IF strs = <<>> THEN ""
    ELSE IF Len(strs) = 1 THEN strs[1]
    ELSE strs[1] \o sep \o Join(Tail(strs), sep)

\* Responses that renders every entry, those without items too.
RECURSIVE Responses_KeepsEmpty(_)
Responses_KeepsEmpty(lunchItems) ==
    IF lunchItems = <<>> THEN <<>>
    ELSE LET item == Head(lunchItems)
         IN  <<item.restaurant \o ": " \o Join(item.items, ", ")>>
                 \o Responses_KeepsEmpty(Tail(lunchItems))

\* The rendering of the entries that have at least one item.
RECURSIVE Responses(_)
Responses(lunchItems) ==
    IF lunchItems = <<>> THEN <<>>
    ELSE LET item == Head(lunchItems)
         IN  IF Len(item.items) > 0
             THEN <<item.restaurant \o ": " \o Join(item.items, ", ")>>
                      \o Responses(Tail(lunchItems))
             ELSE Responses(Tail(lunchItems))

formatLunchResponse(result) ==
    IF ~("success" \in DOMAIN result) \/ ~result.success
    THEN IF "error" \in DOMAIN result THEN result.error ELSE "Unknown error"
    ELSE IF Len(result.lunch) = 0 THEN "No lunch ordered"
    ELSE IF Len(Responses(result.lunch)) > 0
         THEN Join(Responses(result.lunch), ". ")
         ELSE "No lunch ordered"

\* ------------------------------------------------------------- getLunch

NoResponse == [status |-> 0, contentType |-> "", body |-> ""]

\* new Response(JSON.stringify({ error }), { status, application/json })
JsonError(status, error) ==
    [status |-> status, contentType |-> "application/json",
     body |-> "{\"error\":\"" \o error \o "\"}"]

\* new Response(formattedResponse, { status: 200, text/plain })
TextResponse(body) ==
    [status |-> 200, contentType |-> "text/plain", body |-> body]

\* What getLunch answers once fetchLunchWithSession has returned `result` or
\* thrown: the outer catch turns an exception into a 500.
LunchResponseOf(result) ==
    IF "exception" \in DOMAIN result
    THEN JsonError(500, "Unexpected error: " \o result.exception)
    ELSE TextResponse(formatLunchResponse(result))

\* The template literal `Bearer ${expectedToken}`: an unset variable reads
\* as undefined and is spelled out as such.
Bearer(expectedToken) ==
    "Bearer " \o (IF expectedToken = "" THEN "undefined" ELSE expectedToken)

\* Authorized without the test that a secret is configured.
Authorized_SecretNotRequired(authToken, expectedToken) ==
    authToken = Bearer(expectedToken)

\* The authorization check of getLunch.
Authorized(authToken, expectedToken) ==
    ~(expectedToken = "" \/ authToken # Bearer(expectedToken))

\* IsAuthFailure testing for the wrong status: no answer sends the request
\* to the login.
IsAuthFailure_WrongStatus(result) ==
    /\ "error" \in DOMAIN result
    /\ "status" \in DOMAIN result
    /\ result.status = 403

\* IsAuthFailure without the status test: every error sends the request to
\* the login.
IsAuthFailure_AnyError(result) == "error" \in DOMAIN result

\* "error" in result && result.status === 401
IsAuthFailure(result) ==
    /\ "error" \in DOMAIN result
    /\ "status" \in DOMAIN result
    /\ result.status = 401

\* What the upstream's answer to a login amounts to, in the terms of the
\* login contract: "" for a session, else the kind of failure.
LoginFailure(resp) ==
    IF resp.throws \/ ~resp.ok THEN "Unreachable"
    ELSE IF resp.errorAttributes THEN "Rejected"
    ELSE IF \A i \in 1..Len(resp.setCookie) :
                resp.setCookie[i].name # SESSION_COOKIE_NAME
    THEN "MalformedResponse"
    ELSE ""

\* The records of calls[r], one per call a request makes.
\* get: whether a session was returned, whether the returned session was
\* unexpired (now < expiresAt) when the call was made, and how many rows the
\* account had.
GetCall(session, rows) ==
    [op |-> "get",
     answer |-> [hit  |-> session # Null,
                 live |-> session # Null /\ now < session.expiresAt,
                 rows |-> rows]]

\* login: whether a session was obtained, and the kind of failure the
\* upstream's answer amounts to.
LoginCall(data, resp) ==
    [op |-> "login",
     answer |-> [ok |-> data # Null, failure |-> LoginFailure(resp)]]

\* put
PutCall == [op |-> "put"]

\* query: whether the cookie passed is that of `session`, the session
\* record the request holds (the cached one, or the one login returned),
\* whether that record was unexpired (now < expiresAt) when the call was
\* made, and the upstream's answer.
QueryCall(cookie, session, resp) ==
    [op |-> "query", own |-> cookie = session.cookie,
     live |-> now < session.expiresAt, answer |-> resp]

\* RetryCookie read back from the session cache instead of the login's result.
RetryCookie_FromCache(r) ==
    LET s == getCachedSession(store, email[r], now)
    IN  IF s = Null THEN "" ELSE s.cookie

\* The cookie getLunch passes to the query after a login.
RetryCookie(r) == sessionCookie[r]

\* A stored session `row` that is still unexpired at time t.
Unexpired(row, t) == row # Null /\ t < row.expiresAt

\* getLunch returns `resp`: the request's locals go out of scope.
Respond(r, resp) ==
    /\ response' = [response EXCEPT ![r] = resp]
    /\ pc' = [pc EXCEPT ![r] = "done"]
    /\ email' = [email EXCEPT ![r] = ""]
    /\ cachedSession' = [cachedSession EXCEPT ![r] = Null]
    /\ sessionCookie' = [sessionCookie EXCEPT ![r] = ""]
    /\ sessionData' = [sessionData EXCEPT ![r] = Null]

Init ==
    /\ now = 0
    /\ store = <<>>
    /\ pc = [r \in Requests |-> "idle"]
    /\ email = [r \in Requests |-> ""]
    /\ cachedSession = [r \in Requests |-> Null]
    /\ sessionCookie = [r \in Requests |-> ""]
    /\ sessionData = [r \in Requests |-> Null]
    /\ response = [r \in Requests |-> NoResponse]
    /\ calls = [r \in Requests |-> <<>>]
    /\ lastPut = [e \in Emails |-> Null]
    /\ inbound = [r \in Requests |-> Null]
    /\ input = Null
    /\ output = Null

\* A request arrives: the authorization and configuration checks.
Start(r) ==
    /\ pc[r] = "idle"
    /\ \E authToken \in AuthHeaders, env \in Envs :
          /\ inbound' = [inbound EXCEPT ![r] =
                [authToken     |-> authToken,
                 expectedToken |-> env.FORKABLE_AUTH_TOKEN]]
          /\ IF ~Authorized(authToken, env.FORKABLE_AUTH_TOKEN)
             THEN Respond(r, JsonError(401, "Unauthorized"))
             ELSE IF env.FORKABLE_EMAIL = "" \/ env.FORKABLE_PASSWORD = ""
             THEN Respond(r, JsonError(500, "Missing credentials"))
             ELSE /\ email' = [email EXCEPT ![r] = env.FORKABLE_EMAIL]
                  /\ pc' = [pc EXCEPT ![r] = "lookup"]
                  /\ UNCHANGED <<response, cachedSession, sessionCookie,
                                 sessionData>>
    /\ UNCHANGED <<now, store, calls, lastPut, input, output>>

\* await ctx.runQuery(getCachedSession)
Lookup(r) ==
    /\ pc[r] = "lookup"
    /\ LET session == getCachedSession(store, email[r], now)
       IN  /\ cachedSession' = [cachedSession EXCEPT ![r] = session]
           /\ IF session # Null
              THEN /\ sessionCookie' = [sessionCookie EXCEPT ![r] = session.cookie]
                   /\ pc' = [pc EXCEPT ![r] = "tryCached"]
                   /\ calls' = [calls EXCEPT ![r] = Append(@,
                         GetCall(session, Len(ByEmail(store, email[r]))))]
              ELSE /\ pc' = [pc EXCEPT ![r] = "login"]
                   /\ calls' = [calls EXCEPT ![r] = Append(@,
                         GetCall(session, Len(ByEmail(store, email[r]))))]
                   /\ UNCHANGED sessionCookie
    /\ UNCHANGED <<now, store, email, sessionData, response, lastPut, inbound,
                   input, output>>

\* TryCached that deletes the account's rows when the cached session is
\* refused, before going to the login.
TryCached_Invalidates(r) ==
    /\ pc[r] = "tryCached"
    /\ \E resp \in LunchResponses, targetDateStr \in TargetDates :
          LET result == fetchLunchWithSession(resp, targetDateStr)
          IN  /\ calls' = [calls EXCEPT ![r] = Append(@,
                    QueryCall(sessionCookie[r], cachedSession[r], resp))]
              /\ IF "exception" \in DOMAIN result
                 THEN Respond(r, LunchResponseOf(result)) /\ UNCHANGED store
                 ELSE IF IsAuthFailure(result)
                 THEN /\ pc' = [pc EXCEPT ![r] = "login"]
                      /\ cachedSession' = [cachedSession EXCEPT ![r] = Null]
                      /\ store' = SelectSeq(store, LAMBDA s : s.email # email[r])
                      /\ UNCHANGED <<response, email, sessionCookie, sessionData>>
                 ELSE Respond(r, LunchResponseOf(result)) /\ UNCHANGED store
    /\ UNCHANGED <<now, lastPut, inbound, input, output>>

\* TryCached that reads the cache again when the cached session is refused.
TryCached_LooksUpAgain(r) ==
    /\ pc[r] = "tryCached"
    /\ \E resp \in LunchResponses, targetDateStr \in TargetDates :
          LET result == fetchLunchWithSession(resp, targetDateStr)
          IN  /\ calls' = [calls EXCEPT ![r] = Append(@,
                    QueryCall(sessionCookie[r], cachedSession[r], resp))]
              /\ IF "exception" \in DOMAIN result
                 THEN Respond(r, LunchResponseOf(result))
                 ELSE IF IsAuthFailure(result)
                 THEN /\ pc' = [pc EXCEPT ![r] = "lookup"]
                      /\ cachedSession' = [cachedSession EXCEPT ![r] = Null]
                      /\ UNCHANGED <<response, email, sessionCookie, sessionData>>
                 ELSE Respond(r, LunchResponseOf(result))
    /\ UNCHANGED <<now, store, lastPut, inbound, input, output>>

\* await fetchLunchWithSession(sessionCookie) with the cached session.
\* cachedSession is not read past this point and is forgotten here.
TryCached(r) ==
    /\ pc[r] = "tryCached"
    /\ \E resp \in LunchResponses, targetDateStr \in TargetDates :
          LET result == fetchLunchWithSession(resp, targetDateStr)
          IN  /\ calls' = [calls EXCEPT ![r] = Append(@,
                    QueryCall(sessionCookie[r], cachedSession[r], resp))]
              /\ IF "exception" \in DOMAIN result
                 THEN Respond(r, LunchResponseOf(result))
                 ELSE IF IsAuthFailure(result)
                 THEN /\ pc' = [pc EXCEPT ![r] = "login"]
                      /\ cachedSession' = [cachedSession EXCEPT ![r] = Null]
                      /\ UNCHANGED <<response, email, sessionCookie, sessionData>>
                 ELSE Respond(r, LunchResponseOf(result))
    /\ UNCHANGED <<now, store, lastPut, inbound, input, output>>

\* Login that keeps the cookie the request already held: the retry goes
\* out with the cached session's cookie, or with none.
Login_KeepsCookie(r) ==
    /\ pc[r] = "login"
    /\ \E resp \in LoginResponses :
          LET data == loginAndGetSession(resp, now)
          IN  IF data = Null
              THEN /\ Respond(r, JsonError(500, "Failed to login"))
                   /\ calls' = [calls EXCEPT ![r] = Append(@,
                         LoginCall(data, resp))]
              ELSE /\ sessionData' = [sessionData EXCEPT ![r] = data]
                   /\ pc' = [pc EXCEPT ![r] = "store"]
                   /\ calls' = [calls EXCEPT ![r] = Append(@,
                         LoginCall(data, resp))]
                   /\ UNCHANGED <<response, email, cachedSession,
                                  sessionCookie>>
    /\ UNCHANGED <<now, store, lastPut, inbound, input, output>>

\* await loginAndGetSession(email, password)
Login(r) ==
    /\ pc[r] = "login"
    /\ \E resp \in LoginResponses :
          LET data == loginAndGetSession(resp, now)
          IN  IF data = Null
              THEN /\ Respond(r, JsonError(500, "Failed to login"))
                   /\ calls' = [calls EXCEPT ![r] = Append(@,
                         LoginCall(data, resp))]
              ELSE /\ sessionData' = [sessionData EXCEPT ![r] = data]
                   /\ sessionCookie' = [sessionCookie EXCEPT ![r] = data.cookie]
                   /\ pc' = [pc EXCEPT ![r] = "store"]
                   /\ calls' = [calls EXCEPT ![r] = Append(@,
                         LoginCall(data, resp))]
                   /\ UNCHANGED <<response, email, cachedSession>>
    /\ UNCHANGED <<now, store, lastPut, inbound, input, output>>

\* Store that does not store: the request goes on to the retry.
Store_Skipped(r) ==
    /\ pc[r] = "store"
    /\ pc' = [pc EXCEPT ![r] = "retry"]
    /\ UNCHANGED <<now, store, email, cachedSession, sessionCookie,
                   sessionData, response, calls, lastPut, inbound,
                   input, output>>

\* await ctx.runMutation(storeCachedSession)
Store(r) ==
    /\ pc[r] = "store"
    /\ store' = storeCachedSession(store, email[r], sessionCookie[r],
                                   sessionData[r].expiresAt, now)
    /\ lastPut' = [lastPut EXCEPT ![email[r]] =
                      [email     |-> email[r],
                       cookie    |-> sessionCookie[r],
                       expiresAt |-> sessionData[r].expiresAt,
                       createdAt |-> now]]
    /\ calls' = [calls EXCEPT ![r] = Append(@,
          PutCall)]
    /\ pc' = [pc EXCEPT ![r] = "retry"]
    /\ UNCHANGED <<now, email, cachedSession, sessionCookie, sessionData,
                   response, inbound, input, output>>

\* Retry that logs in again when the new session is refused.
Retry_UntilAuthenticated(r) ==
    /\ pc[r] = "retry"
    /\ \E resp \in LunchResponses, targetDateStr \in TargetDates :
          LET result == fetchLunchWithSession(resp, targetDateStr)
          IN  /\ calls' = [calls EXCEPT ![r] = Append(@,
                    QueryCall(RetryCookie(r), sessionData[r], resp))]
              /\ IF IsAuthFailure(result)
                 THEN /\ pc' = [pc EXCEPT ![r] = "login"]
                      /\ UNCHANGED <<response, email, cachedSession,
                                     sessionCookie, sessionData>>
                 ELSE Respond(r, LunchResponseOf(result))
    /\ UNCHANGED <<now, store, lastPut, inbound, input, output>>

\* await fetchLunchWithSession(sessionCookie) with the new session
Retry(r) ==
    /\ pc[r] = "retry"
    /\ \E resp \in LunchResponses, targetDateStr \in TargetDates :
          /\ calls' = [calls EXCEPT ![r] = Append(@,
                QueryCall(RetryCookie(r), sessionData[r], resp))]
          /\ Respond(r, LunchResponseOf(fetchLunchWithSession(resp, targetDateStr)))
    /\ UNCHANGED <<now, store, lastPut, inbound, input, output>>

\* The response has been sent; the next request may arrive.
Finish(r) ==
    /\ pc[r] = "done"
    /\ pc' = [pc EXCEPT ![r] = "idle"]
    /\ response' = [response EXCEPT ![r] = NoResponse]
    /\ calls' = [calls EXCEPT ![r] = <<>>]
    /\ inbound' = [inbound EXCEPT ![r] = Null]
    /\ UNCHANGED <<now, store, email, cachedSession, sessionCookie,
                   sessionData, lastPut, input, output>>

\* Time passes.
Tick ==
    /\ now < MaxTime
    /\ now' = now + HOUR
    /\ UNCHANGED <<store, pc, email, cachedSession, sessionCookie,
                   sessionData, response, calls, lastPut, inbound,
                   input, output>>

Next ==
    \/ \E r \in Requests : Start(r)
    \/ \E r \in Requests : Lookup(r)
    \/ \E r \in Requests : TryCached(r)
    \/ \E r \in Requests : Login(r)
    \/ \E r \in Requests : Store(r)
    \/ \E r \in Requests : Retry(r)
    \/ \E r \in Requests : Finish(r)
    \/ Tick

Spec == Init /\ [][Next]_vars

\* The steps of request r once it has been received: each is an `await` of
\* getLunch on a call that returns or fails.
Step(r) == Lookup(r) \/ TryCached(r) \/ Login(r) \/ Store(r) \/ Retry(r)

\* Every call a request awaits returns or fails.
FairSpec == Spec /\ \A r \in Requests : WF_vars(Step(r))

\* ------------------------------------------------- cache calls that throw

\* The record in calls[r] of a cache call that threw `message`.
ThrownCall(op, message) ==
    [op |-> op, answer |-> [throws |-> TRUE, message |-> message]]

\* await ctx.runQuery(getCachedSession) throws: the outer catch answers.
LookupThrows(r) ==
    /\ pc[r] = "lookup"
    /\ calls' = [calls EXCEPT ![r] = Append(@,
          ThrownCall("get", "query failed"))]
    /\ Respond(r, JsonError(500, "Unexpected error: " \o "query failed"))
    /\ UNCHANGED <<now, store, lastPut, inbound, input, output>>

\* await ctx.runMutation(storeCachedSession) throws: the mutation is a
\* transaction, nothing of it is written, and the outer catch answers.
StoreThrows(r) ==
    /\ pc[r] = "store"
    /\ calls' = [calls EXCEPT ![r] = Append(@,
          ThrownCall("put", "mutation failed"))]
    /\ Respond(r, JsonError(500, "Unexpected error: " \o "mutation failed"))
    /\ UNCHANGED <<now, store, lastPut, inbound, input, output>>

FaultNext ==
    \/ Next
    \/ \E r \in Requests : LookupThrows(r)
    \/ \E r \in Requests : StoreThrows(r)

\* The endpoint when the cache calls may throw as the query may.
FaultSpec == Init /\ [][FaultNext]_vars

\* ======================================================= Date Selector

\* The Gregorian calendar, as Date and Intl compute with it.
IsLeapYear(y) == (y % 4 = 0 /\ y % 100 # 0) \/ y % 400 = 0

DaysInMonth(y, m) ==
    IF m = 2 THEN (IF IsLeapYear(y) THEN 29 ELSE 28)
    ELSE IF m \in {4, 6, 9, 11} THEN 30
    ELSE 31

CalendarDate(y, m, d) == [year |-> y, month |-> m, day |-> d]

NextDay(date) ==
    IF date.day < DaysInMonth(date.year, date.month)
    THEN CalendarDate(date.year, date.month, date.day + 1)
    ELSE IF date.month < 12
    THEN CalendarDate(date.year, date.month + 1, 1)
    ELSE CalendarDate(date.year + 1, 1, 1)

PrevDay(date) ==
    IF date.day > 1
    THEN CalendarDate(date.year, date.month, date.day - 1)
    ELSE IF date.month > 1
    THEN CalendarDate(date.year, date.month - 1,
                      DaysInMonth(date.year, date.month - 1))
    ELSE CalendarDate(date.year - 1, 12, 31)

\* The wall clock, `offset` hours from the one showing `time` (a calendar
\* date and an hour of the day): how Intl reads an instant in a time zone.
ShiftClock(time, offset) ==
    LET h == time.hour + offset
    IN  IF h < 0 THEN [date |-> PrevDay(time.date), hour |-> h + 24]
        ELSE IF h >= 24 THEN [date |-> NextDay(time.date), hour |-> h - 24]
        ELSE [date |-> time.date, hour |-> h]

\* Intl.DateTimeFormat('en-US', {hour: 'numeric', hour12: false}).format:
\* the hour of the day as text.  Engines differ on midnight: with the h23
\* cycle it is "0", with the h24 cycle it is "24".
FormatHour(hour, hourCycle) ==
    IF hour = 0 /\ hourCycle = "h24" THEN "24" ELSE ToString(hour)

\* parseInt over the texts FormatHour produces.
ParseInt(text) == CHOOSE n \in 0..24 : ToString(n) = text

\* getDaysAhead at the UTC time `utc`, TIMEZONE being `offset` hours from
\* UTC.
getDaysAhead(utc, offset, hourCycle) ==
    LET sfTime == FormatHour(ShiftClock(utc, offset).hour, hourCycle)
        hour == ParseInt(sfTime)
    IN  IF hour >= 13 THEN 1 ELSE 0

\* new Date(year, monthIndex, day): a day past the end of the month rolls
\* over into the next month, and past December into the next year.
DateOf(y, m, d) ==
    IF d <= DaysInMonth(y, m) THEN CalendarDate(y, m, d)
    ELSE IF m < 12 THEN CalendarDate(y, m + 1, d - DaysInMonth(y, m))
    ELSE CalendarDate(y + 1, 1, d - DaysInMonth(y, m))

Pad2(n) == IF n < 10 THEN "0" \o ToString(n) ELSE ToString(n)

\* The date part of toISOString(), and the en-CA rendering of a date.
IsoDate(date) ==
    ToString(date.year) \o "-" \o Pad2(date.month) \o "-" \o Pad2(date.day)

\* targetDateStr as getLunch computes it.  currentDateInTz is the date in
\* TIMEZONE; new Date(...) is midnight of the target day on the runtime's
\* own clock (runtimeOffset hours from UTC); toISOString() reads that
\* instant on the UTC clock.
TargetDateStr(utc, offset, runtimeOffset, hourCycle) ==
    LET daysAhead == getDaysAhead(utc, offset, hourCycle)
        currentDateInTz == ShiftClock(utc, offset).date
        targetDate == [date |-> DateOf(currentDateInTz.year,
                                       currentDateInTz.month,
                                       currentDateInTz.day + daysAhead),
                       hour |-> 0]
    IN  IsoDate(ShiftClock(targetDate, -runtimeOffset).date)

\* ============================================= the functions on their own

\* The value of `output` before the function has been applied.
Pending == [pending |-> TRUE]

\* Longest lunch list given to formatLunchResponse.
MaxEntries == 2

\* Sequences over S of length at most n.
SeqUpTo(S, n) == UNION {[1..k -> S] : k \in 0..n}

\* Results formatLunchResponse may be given: the successes and the errors of
\* fetchLunchWithSession, and an error without a status.
FormatInputs ==
    {[date |-> d, lunch |-> l, success |-> TRUE] :
        d \in TargetDates,
        l \in SeqUpTo([restaurant : {"Cafe A", "Deli B"},
                       items : {<<>>, <<"Soup">>, <<"Salad">>,
                                <<"Sandwich", "Soup">>}], MaxEntries)}
    \cup {[error |-> "Authentication failed", status |-> 401],
          [error |-> "Failed to fetch lunch data with status 500",
           status |-> 500],
          [error |-> "Invalid credentials"]}

\* Answers to the delivery query: each HTTP status, each way a body may
\* name an error, and deliveries for the target date and for another day,
\* with and without pieces and venue name.
FetchInputs ==
    {LunchResponse(TRUE, FALSE, 0, <<>>, <<>>)}
    \cup {LunchResponse(FALSE, FALSE, st, <<>>, <<>>) : st \in {401, 403, 500}}
    \cup {LunchResponse(FALSE, TRUE, 200, <<GraphQLError(m, c)>>, <<>>) :
            m \in {<<"denied">>, <<"user", "unauthenticated">>,
                   <<"unauthorized">>, <<"Unauthorized">>},
            c \in {"", "UNAUTHENTICATED", "INTERNAL_SERVER_ERROR"}}
    \cup {LunchResponse(FALSE, TRUE, 200, <<>>, ds) :
            ds \in {<<>>} \cup
                   {<<Delivery(d, v, p)>> :
                       d \in {"2026-11-04", "2026-11-05"},
                       v \in {"Cafe A", ""},
                       p \in {<<>>, <<[name |-> "Sandwich"], [name |-> ""],
                                     [name |-> "Soup"]>>}}}

\* Answers to the login: the failures, and set-cookie headers of one or two
\* cookies, the session cookie alone, first or second, each with or without
\* a date that may or may not parse.
LoginCookies ==
    {Cookie(SESSION_COOKIE_NAME, v, e[1], e[2]) :
        v \in Tokens,
        e \in {<<"none", 0>>, <<"invalid", 0>>, <<"date", 2 * HOUR>>,
               <<"date", 30 * HOUR>>}}
    \cup {Cookie("other", "1", e[1], e[2]) :
        e \in {<<"none", 0>>, <<"invalid", 0>>, <<"date", 5 * HOUR>>}}

LoginInputs ==
    {r \in LoginResponses : r.setCookie = <<>>}
    \cup {[throws |-> FALSE, ok |-> TRUE, status |-> 200,
           errorAttributes |-> FALSE, setCookie |-> h] :
              h \in SeqUpTo(LoginCookies, 2) \ {<<>>}}

\* Instants (UTC date and hour) around a month end, a year end and the
\* end of February in a common and in a leap year; time zones by their
\* offset from UTC in hours (America/Los_Angeles, UTC, Europe/Berlin,
\* Asia/Tokyo, in winter); the hour cycle the engine formats with.
DateInputs ==
    [utc : [date : {CalendarDate(2026, 11, 4), CalendarDate(2026, 11, 30),
                    CalendarDate(2026, 12, 31), CalendarDate(2027, 2, 28),
                    CalendarDate(2028, 2, 28)},
            hour : 0..23],
     offset : {-8, 0, 9},
     runtimeOffset : {-8, 0, 1},
     hourCycle : {"h23", "h24"}]

FunctionInputs ==
    {[fn |-> "formatLunchResponse", arg |-> a] : a \in FormatInputs}
    \cup {[fn |-> "fetchLunchWithSession",
           arg |-> [resp |-> a, targetDateStr |-> d]] :
              a \in FetchInputs, d \in TargetDates}
    \cup {[fn |-> "loginAndGetSession", arg |-> a] : a \in LoginInputs}
    \cup {[fn |-> "targetDate", arg |-> a] : a \in DateInputs}

FunctionInit ==
    /\ now \in 0..MaxTime
    /\ store = <<>>
    /\ pc = [r \in Requests |-> "idle"]
    /\ email = [r \in Requests |-> ""]
    /\ cachedSession = [r \in Requests |-> Null]
    /\ sessionCookie = [r \in Requests |-> ""]
    /\ sessionData = [r \in Requests |-> Null]
    /\ response = [r \in Requests |-> NoResponse]
    /\ calls = [r \in Requests |-> <<>>]
    /\ lastPut = [e \in Emails |-> Null]
    /\ inbound = [r \in Requests |-> Null]
    /\ input \in FunctionInputs
    /\ output = Pending

\* const formattedResponse = formatLunchResponse(result)
Apply_formatLunchResponse ==
    /\ input.fn = "formatLunchResponse"
    /\ output = Pending
    /\ output' = [text |-> formatLunchResponse(input.arg)]
    /\ UNCHANGED <<now, store, pc, email, cachedSession, sessionCookie,
                   sessionData, response, calls, lastPut, inbound, input>>

\* const result = await fetchLunchWithSession(...), and the test getLunch
\* makes on it to decide whether to log in.
Apply_fetchLunchWithSession ==
    /\ input.fn = "fetchLunchWithSession"
    /\ output = Pending
    /\ LET result == fetchLunchWithSession(input.arg.resp,
                                           input.arg.targetDateStr)
       IN  output' = [result |-> result, shouldLogin |-> IsAuthFailure(result)]
    /\ UNCHANGED <<now, store, pc, email, cachedSession, sessionCookie,
                   sessionData, response, calls, lastPut, inbound, input>>

\* const sessionData = await loginAndGetSession(email, password)
Apply_loginAndGetSession ==
    /\ input.fn = "loginAndGetSession"
    /\ output = Pending
    /\ output' = loginAndGetSession(input.arg, now)
    /\ UNCHANGED <<now, store, pc, email, cachedSession, sessionCookie,
                   sessionData, response, calls, lastPut, inbound, input>>

\* await ctx.runMutation(storeCachedSession) with the session login returned
Apply_storeCachedSession ==
    /\ input.fn = "loginAndGetSession"
    /\ output # Pending /\ output # Null
    /\ store = <<>>
    /\ \E e \in Emails :
          store' = storeCachedSession(store, e, output.cookie,
                                      output.expiresAt, now)
    /\ UNCHANGED <<now, pc, email, cachedSession, sessionCookie,
                   sessionData, response, calls, lastPut, inbound, input,
                   output>>

\* The date calculation at the head of getLunch's try block.
Apply_targetDate ==
    /\ input.fn = "targetDate"
    /\ output = Pending
    /\ output' = [targetDateStr |->
                     TargetDateStr(input.arg.utc, input.arg.offset,
                                   input.arg.runtimeOffset,
                                   input.arg.hourCycle)]
    /\ UNCHANGED <<now, store, pc, email, cachedSession, sessionCookie,
                   sessionData, response, calls, lastPut, inbound, input>>

FunctionNext ==
    \/ Apply_formatLunchResponse
    \/ Apply_fetchLunchWithSession
    \/ Apply_loginAndGetSession
    \/ Apply_storeCachedSession
    \/ Apply_targetDate

\* Each function applied once to one input.
FunctionSpec == FunctionInit /\ [][FunctionNext]_vars

\* ======================================================== properties

\* The calls of request r with operation op, as positions in calls[r].
CallsOf(r, op) == {i \in 1..Len(calls[r]) : calls[r][i].op = op}

\* The upstream's answer signals an authentication failure: HTTP 401, or an
\* authentication error code or message in a 200 body.
SignalsUnauthenticated(resp) ==
    /\ ~resp.throws
    /\ \/ ~resp.ok /\ resp.status = 401
       \/ /\ resp.ok
          /\ \E i \in 1..Len(resp.errors) :
                \/ resp.errors[i].code = "UNAUTHENTICATED"
                \/ Includes(resp.errors[i].message, "unauthenticated")
                \/ Includes(resp.errors[i].message, "unauthorized")

\* The upstream's answer is a failure that is not about authentication: the
\* transport failed, or the HTTP status is a non-success other than 401.
SignalsOtherFailure(resp) ==
    \/ resp.throws
    \/ ~resp.ok /\ resp.status # 401

\* Request r made a cached attempt (a query right after a get that hit).
CachedAttempt(r) ==
    /\ Len(calls[r]) >= 2
    /\ calls[r][1].op = "get" /\ calls[r][1].answer.hit
    /\ calls[r][2].op = "query"

\* The response a query answered `resp` leads to when it is the final call.
FinalOf(resp) ==
    {LunchResponseOf(fetchLunchWithSession(resp, d)) : d \in TargetDates}

LoginFailed == JsonError(500, "Failed to login")

\* C1: when the query with the cached session is answered Unauthenticated,
\* the request logs in; it does not answer before, and once it has answered
\* the response is that of the failed login or of the retry query made
\* after the login and the put, never that of the cached attempt.
C1_StaleAuthErrorNeverReturned ==
    \A r \in Requests :
        (CachedAttempt(r) /\ SignalsUnauthenticated(calls[r][2].answer)) =>
            /\ pc[r] \in {"login", "store", "retry", "done"}
            /\ pc[r] = "login" <=> Len(calls[r]) = 2
            /\ Len(calls[r]) >= 3 => calls[r][3].op = "login"
            /\ pc[r] = "done" =>
                  IF calls[r][3].answer.ok
                  THEN /\ Len(calls[r]) = 5
                       /\ calls[r][4].op = "put"
                       /\ calls[r][5].op = "query"
                       /\ response[r] \in FinalOf(calls[r][5].answer)
                  ELSE /\ Len(calls[r]) = 3
                       /\ response[r] = LoginFailed

\* A request whose cached attempt was answered Unauthenticated by a 200 body
\* has answered with the deliveries its retry obtained.
C1_Witness ==
    \E r \in Requests :
        /\ pc[r] = "done"
        /\ CachedAttempt(r)
        /\ calls[r][2].answer.ok
        /\ SignalsUnauthenticated(calls[r][2].answer)
        /\ Len(calls[r]) = 5
        /\ response[r] = TextResponse("Cafe A: Sandwich, Soup")

\* C2: when the query with the cached session fails with a non-authentication
\* error, the request makes no further call (no login, no put) and answers
\* with that error.
C2_OtherErrorIsFinal ==
    \A r \in Requests :
        (CachedAttempt(r) /\ SignalsOtherFailure(calls[r][2].answer)) =>
            /\ pc[r] = "done"
            /\ Len(calls[r]) = 2
            /\ response[r] \in FinalOf(calls[r][2].answer)
            /\ ~calls[r][2].answer.throws =>
                  response[r] = TextResponse(
                      "Failed to fetch lunch data with status "
                          \o ToString(calls[r][2].answer.status))

\* A request has answered with the HTTP 500 its cached attempt met.
C2_Witness ==
    \E r \in Requests :
        /\ pc[r] = "done"
        /\ CachedAttempt(r)
        /\ calls[r][2].answer.status = 500
        /\ response[r].body = "Failed to fetch lunch data with status 500"

\* C3: a request calls login at most once and queries at most twice: at most
\* one query with the cached session and at most one after the login.
C3_AtMostOneLoginTwoQueries ==
    \A r \in Requests :
        /\ Cardinality(CallsOf(r, "login")) <= 1
        /\ Cardinality(CallsOf(r, "query")) <= 2
        /\ \A i \in CallsOf(r, "query") :
              \/ i = 2 /\ calls[r][1].op = "get" /\ calls[r][1].answer.hit
              \/ i > 2 /\ calls[r][i - 1].op = "put"
        /\ Cardinality({i \in CallsOf(r, "query") : i = 2}) <= 1
        /\ Cardinality({i \in CallsOf(r, "query") :
                            \E j \in CallsOf(r, "login") : j < i}) <= 1

\* A request has made both queries and the login.
C3_Witness ==
    \E r \in Requests :
        /\ Cardinality(CallsOf(r, "login")) = 1
        /\ Cardinality(CallsOf(r, "query")) = 2

\* C4: every query is made with the cookie of a session record that is
\* unexpired (now < expiresAt) at the moment of the call.
C4_NeverQueriesWithExpiredSession ==
    \A r \in Requests :
        \A i \in CallsOf(r, "query") : calls[r][i].live

\* C5: the table never holds more than one row per account.
C5_OneRowPerAccount ==
    \A e \in Emails : Len(ByEmail(store, e)) <= 1

\* Two requests have both stored a session for the same account, the second
\* at a later time than the first, and the table holds one row.
C5_Witness ==
    \E r1, r2 \in Requests :
        /\ r1 # r2
        /\ email[r1] = email[r2]
        /\ CallsOf(r1, "put") # {} /\ CallsOf(r2, "put") # {}
        /\ Len(store) = 1
        /\ store[1].createdAt > 0

\* The row get returns for account e at time t, as the caller sees it.
Got(e, t) ==
    LET s == getCachedSession(store, e, t)
    IN  IF s = Null THEN Null
        ELSE [cookie |-> s.cookie, expiresAt |-> s.expiresAt]

\* C6: after put(e, cookie, exp), and until the next put for e, get(e)
\* returns exactly that cookie and expiry at every time before exp; no
\* other row of the account is returned at any time, now or later.
C6_GetReturnsLastPut ==
    \A e \in Emails :
        lastPut[e] # Null =>
            \A t \in now..(MaxTime + FALLBACK_HOURS * HOUR) :
                Got(e, t) = IF lastPut[e].expiresAt > t
                            THEN [cookie    |-> lastPut[e].cookie,
                                  expiresAt |-> lastPut[e].expiresAt]
                            ELSE Null

\* A session was stored over an earlier, still unexpired one with another
\* cookie, and get returns the new one.
C6_Witness ==
    \E e \in Emails, r \in Requests :
        /\ lastPut[e] # Null
        /\ lastPut[e].createdAt > 0
        /\ lastPut[e].expiresAt > now
        /\ pc[r] = "tryCached"
        /\ cachedSession[r].cookie # lastPut[e].cookie
        /\ cachedSession[r].expiresAt > now
        /\ Got(e, now) # Null
        /\ Got(e, now).cookie = lastPut[e].cookie

\* The rows of account e that are unexpired at time t.
LiveRows(e, t) == SelectSeq(ByEmail(store, e), LAMBDA s : s.expiresAt > t)

\* C7: get never returns a row whose expiresAt is at or before the time of
\* the call, and answers an account whose rows are all expired as it answers
\* an account with no row: with null.
C7_GetSkipsExpired ==
    /\ \A e \in Emails :
          LET s == getCachedSession(store, e, now)
          IN  /\ s # Null => s.expiresAt > now
              /\ LiveRows(e, now) = <<>> => s = Null
    /\ \A r \in Requests :
          /\ \A i \in CallsOf(r, "get") :
                calls[r][i].answer.hit => calls[r][i].answer.live
          /\ pc[r] = "login" /\ Len(calls[r]) = 1 => cachedSession[r] = Null

\* A get found the account's only row expired and returned null, as another
\* found no row and returned null.
C7_Witness ==
    \E r1, r2 \in Requests :
        /\ calls[r1] # <<>> /\ calls[r2] # <<>>
        /\ ~calls[r1][1].answer.hit /\ calls[r1][1].answer.rows = 1
        /\ ~calls[r2][1].answer.hit /\ calls[r2][1].answer.rows = 0
        /\ cachedSession[r1] = cachedSession[r2]
        /\ pc[r1] = "login" /\ pc[r2] = "login"

\* C8: when requests for the same account overlap and each finds no usable
\* session, each logs in and stores; the account's only row is the one the
\* last put stored; each request retries with the cookie its own login
\* returned; and each answers as it would have alone: with the failure of
\* its login, or with what its own retry obtained.
C8_RacingLoginsStayCorrect ==
    /\ \A e \in Emails :
          lastPut[e] # Null => ByEmail(store, e) = <<lastPut[e]>>
    /\ \A r \in Requests :
          /\ pc[r] = "retry" => RetryCookie(r) = sessionData[r].cookie
          /\ \A i \in CallsOf(r, "query") : i > 2 => calls[r][i].own
          /\ (pc[r] = "done" /\ calls[r] # <<>> /\ ~calls[r][1].answer.hit) =>
                IF calls[r][2].answer.ok
                THEN /\ Len(calls[r]) = 4
                     /\ response[r] \in FinalOf(calls[r][4].answer)
                ELSE /\ Len(calls[r]) = 2
                     /\ response[r] = LoginFailed

\* Two requests for one account both found no session, logged in and were
\* given different cookies, and stored; the row is the later put's and both
\* are about to retry.
C8_Witness ==
    \E r1, r2 \in Requests :
        /\ pc[r1] = "retry" /\ pc[r2] = "retry"
        /\ email[r1] = email[r2]
        /\ Len(calls[r1]) = 3 /\ Len(calls[r2]) = 3
        /\ sessionCookie[r1] # sessionCookie[r2]
        /\ store = <<lastPut[email[r1]]>>
        /\ store[1].cookie = sessionCookie[r2]

\* C9: a request whose login fails (the upstream unreachable or answering a
\* non-success status, the credentials rejected, no session cookie in the
\* answer) ends there with the login failure: it never puts, it makes no call
\* after the login, and the failing login step leaves the table as it was.
C9_FailedLoginEndsRequest ==
    /\ [](\A r \in Requests :
            \A i \in CallsOf(r, "login") :
                calls[r][i].answer.failure # "" =>
                    /\ pc[r] = "done"
                    /\ response[r] = LoginFailed
                    /\ i = Len(calls[r])
                    /\ CallsOf(r, "put") = {})
    /\ [][\A r \in Requests :
            (pc[r] = "login" /\ pc'[r] = "done") =>
                (store' = store /\ lastPut' = lastPut)]_vars

\* A request whose cached session was refused has failed to log in for want
\* of a session cookie, and the refused row is still the account's row.
C9_Witness ==
    \E r \in Requests :
        /\ pc[r] = "done"
        /\ Len(calls[r]) = 3
        /\ calls[r][3].op = "login"
        /\ calls[r][3].answer.failure = "MalformedResponse"
        /\ response[r] = LoginFailed
        /\ Len(store) = 1

\* C10: a request puts only right after its login succeeded, and then exactly
\* once, before any retry query; the put stores the cookie and expiresAt the
\* login returned under the request's account; the table changes in no other
\* step.
C10_OnePutAfterLogin ==
    /\ [](\A r \in Requests :
            /\ Cardinality(CallsOf(r, "put")) <= 1
            /\ \A i \in CallsOf(r, "put") :
                  /\ i > 1
                  /\ calls[r][i - 1].op = "login"
                  /\ calls[r][i - 1].answer.ok
            /\ \A i \in CallsOf(r, "login") :
                  IF calls[r][i].answer.ok
                  THEN IF i = Len(calls[r]) THEN pc[r] = "store"
                       ELSE calls[r][i + 1].op = "put"
                  ELSE CallsOf(r, "put") = {}
            /\ CallsOf(r, "login") = {} => CallsOf(r, "put") = {}
            /\ \A i \in CallsOf(r, "query") :
                  i > 2 => calls[r][i - 1].op = "put")
    /\ [][/\ \A r \in Requests :
               (pc[r] = "store" /\ pc'[r] = "retry") =>
                   /\ store' # <<>>
                   /\ store'[Len(store')] =
                         [email     |-> email[r],
                          cookie    |-> sessionData[r].cookie,
                          expiresAt |-> sessionData[r].expiresAt,
                          createdAt |-> now]
          /\ store' # store =>
               \E r \in Requests : pc[r] = "store" /\ pc'[r] = "retry"]_vars

\* A request has answered after a login, one put and a retry, and the row it
\* stored is in the table.
C10_Witness ==
    \E r \in Requests :
        /\ pc[r] = "done"
        /\ Len(calls[r]) = 4
        /\ calls[r][2].op = "login" /\ calls[r][2].answer.ok
        /\ calls[r][3].op = "put"
        /\ calls[r][4].op = "query"
        /\ Len(store) = 1

\* The successful logins of request r, as positions in calls[r].
LoginsOk(r) == {i \in CallsOf(r, "login") : calls[r][i].answer.ok}

\* C11: after a successful login the request stores the session and queries
\* exactly once, with the cookie that login returned; whatever that query is
\* answered, Unauthenticated included, the request ends there with the
\* outcome of that query: no second login and no further query.
C11_RetryOnceWithNewSession ==
    \A r \in Requests : \A i \in LoginsOk(r) :
        /\ CallsOf(r, "login") = {i}
        /\ Len(calls[r]) <= i + 2
        /\ pc[r] = "store" <=> Len(calls[r]) = i
        /\ pc[r] = "retry" <=> Len(calls[r]) = i + 1
        /\ pc[r] = "done" <=> Len(calls[r]) = i + 2
        /\ pc[r] \in {"store", "retry", "done"}
        /\ pc[r] = "retry" => sessionCookie[r] = sessionData[r].cookie
        /\ Len(calls[r]) > i => calls[r][i + 1].op = "put"
        /\ Len(calls[r]) = i + 2 =>
              /\ calls[r][i + 2].op = "query"
              /\ calls[r][i + 2].own
              /\ response[r] \in FinalOf(calls[r][i + 2].answer)

\* A request whose query after the login was answered HTTP 401 has ended
\* with that failure, after one login and one query since.
C11_Witness ==
    \E r \in Requests :
        /\ pc[r] = "done"
        /\ Len(calls[r]) = 5
        /\ calls[r][3].op = "login" /\ calls[r][3].answer.ok
        /\ SignalsUnauthenticated(calls[r][5].answer)
        /\ calls[r][5].own
        /\ response[r] =
              TextResponse("Failed to fetch lunch data with status 401")

\* The last call of request r (there is one).
LastCall(r) == calls[r][Len(calls[r])]

\* The upstream's answer to a query is a failure the query reports as an
\* error result: a non-success HTTP status or an authentication error in the
\* body.
QueryFailed(resp) ==
    ~resp.throws /\ "error" \in DOMAIN fetchLunchWithSession(resp, "")

\* C12: every failure reaches the caller as text in a 200 body or as a
\* non-200 status: a failure of the login or of the query that upstream
\* answered is delivered as a 200 text/plain body carrying the failure
\* message, and 401 and 500 are kept for a bad bearer token, missing
\* configuration and unexpected exceptions.
C12_BusinessFailuresAreText ==
    \A r \in Requests : pc[r] = "done" =>
        /\ response[r].status \in {200, 401, 500}
        /\ response[r].body # ""
        /\ (calls[r] # <<>> /\ LastCall(r).op = "login"
                /\ LastCall(r).answer.failure \in {"Rejected", "MalformedResponse"}) =>
              /\ response[r].status = 200
              /\ response[r].contentType = "text/plain"
        /\ (calls[r] # <<>> /\ LastCall(r).op = "query"
                /\ QueryFailed(LastCall(r).answer)) =>
              response[r] \in
                  {TextResponse(fetchLunchWithSession(LastCall(r).answer, d).error) :
                      d \in TargetDates}
        /\ response[r].status \in {401, 500} =>
              \/ calls[r] = <<>>
              \/ LastCall(r).op = "query" /\ LastCall(r).answer.throws
              \/ LastCall(r).op = "login" /\ LastCall(r).answer.failure = "Unreachable"

\* The request getLunch received carries no Authorization header or one
\* that is not "Bearer <secret>", or no secret is configured.
NotAuthorized(req) ==
    \/ req.expectedToken = ""
    \/ req.authToken = ""
    \/ req.authToken # "Bearer " \o req.expectedToken

\* C13: a request whose Authorization header is missing or is not
\* "Bearer <secret>", or that arrives when no secret is configured, is
\* answered HTTP 401 at once: it calls neither the upstream (login, query)
\* nor the cache (get, put); and no other request is answered 401.
C13_UnauthorizedIsRejectedUntouched ==
    \A r \in Requests :
        /\ pc[r] = "idle" <=> inbound[r] = Null
        /\ (inbound[r] # Null /\ NotAuthorized(inbound[r])) =>
              /\ pc[r] = "done"
              /\ response[r] = JsonError(401, "Unauthorized")
              /\ calls[r] = <<>>
              /\ email[r] = ""
        /\ (inbound[r] # Null /\ ~NotAuthorized(inbound[r])) =>
              response[r].status # 401

\* With no secret configured, a request presenting "Bearer undefined" has
\* been answered 401 while the table holds a session it never touched.
C13_Witness ==
    \E r \in Requests :
        /\ inbound[r] =
              [authToken |-> "Bearer undefined", expectedToken |-> ""]
        /\ response[r].status = 401
        /\ calls[r] = <<>>
        /\ store # <<>>

\* The stages of a request, in the order getLunch goes through them; the
\* put belongs to the Login stage.
StageRank(stage) ==
    CASE stage = "idle"      -> 0
      [] stage = "lookup"    -> 1
      [] stage = "tryCached" -> 2
      [] stage = "login"     -> 3
      [] stage = "store"     -> 3
      [] stage = "retry"     -> 4
      [] stage = "done"      -> 5

InFlight == {"lookup", "tryCached", "login", "store", "retry"}

\* C14: every request that has been received reaches Done, provided each
\* call it awaits returns or fails; on the way it only moves forward in the
\* order Lookup, Try-Cached, Login, Retry, Done, so it is in each stage at
\* most once and never goes back, and it enters Login straight from Lookup
\* exactly when get returned no session.
C14_ReachesDoneInOrder ==
    /\ \A r \in Requests : []<>(pc[r] \notin InFlight)
    /\ [][\A r \in Requests : pc'[r] # pc[r] =>
            /\ \/ pc[r] = "done" /\ pc'[r] = "idle"
               \/ pc[r] = "login" /\ pc'[r] = "store"
               \/ StageRank(pc'[r]) > StageRank(pc[r])
            /\ pc[r] = "store" => pc'[r] = "retry"
            /\ pc[r] = "lookup" =>
                  /\ pc'[r] \in {"tryCached", "login"}
                  /\ pc'[r] = "login" <=>
                        getCachedSession(store, email[r], now) = Null
            /\ pc[r] = "tryCached" => pc'[r] \in {"login", "done"}
            /\ pc[r] = "login" => pc'[r] \in {"store", "done"}
            /\ pc[r] = "retry" => pc'[r] = "done"]_vars

\* A request has gone through every stage: five calls, then Done.
C14_Witness ==
    \E r \in Requests :
        /\ pc[r] = "done"
        /\ Len(calls[r]) = 5
        /\ response[r] = TextResponse("No lunch ordered")

\* C15: once a session has been stored, a request of the same account whose
\* get is made before the stored expiresAt, with no put in between, is
\* given that session and goes on to query with its cookie; and a request
\* whose query with the cached cookie is not answered Unauthenticated ends
\* there: it never calls login, stores nothing, and has made exactly one
\* query.
C15_CacheAvoidsLogin ==
    /\ [](\A r \in Requests :
            (CachedAttempt(r)
                /\ ~SignalsUnauthenticated(calls[r][2].answer)) =>
               /\ pc[r] = "done"
               /\ CallsOf(r, "login") = {}
               /\ CallsOf(r, "put") = {}
               /\ CallsOf(r, "query") = {2}
               /\ Len(calls[r]) = 2
               /\ response[r] \in FinalOf(calls[r][2].answer))
    /\ [][\A r \in Requests :
            (pc[r] = "lookup" /\ pc'[r] # "lookup"
                /\ Unexpired(lastPut[email[r]], now)) =>
               /\ pc'[r] = "tryCached"
               /\ sessionCookie'[r] = lastPut[email[r]].cookie
               /\ calls'[r] = <<GetCall(lastPut[email[r]], 1)>>]_vars

\* After one request logged in and stored the session, another has been
\* served with a get and a single query, and no login.
C15_Witness ==
    \E r, q \in Requests :
        /\ q # r
        /\ pc[q] = "done" /\ Len(calls[q]) = 4 /\ calls[q][3].op = "put"
        /\ pc[r] = "done" /\ CachedAttempt(r) /\ Len(calls[r]) = 2
        /\ response[r] = TextResponse("Cafe A: Sandwich, Soup")

\* The first date pattern in the cookies `cs`, read from the left.
RECURSIVE FirstDate(_)
FirstDate(cs) ==
    IF cs = <<>> THEN [kind |-> "none", at |-> 0]
    ELSE IF Head(cs).expires.kind # "none" THEN Head(cs).expires
    ELSE FirstDate(Tail(cs))

\* The set-cookie header from its first session cookie on.
RECURSIVE FromSession(_)
FromSession(h) ==
    IF h = <<>> \/ Head(h).name = SESSION_COOKIE_NAME THEN h
    ELSE FromSession(Tail(h))

\* C16: on a successful login at time t the returned expiresAt is the date
\* found in the set-cookie header after the session token, minus one hour,
\* when there is such a date and it parses, and t plus 23 hours when there
\* is none or it does not parse; and the put that follows stores that very
\* value, with the session cookie.
C16_ExpiresAtFromCookieDate ==
    (input.fn = "loginAndGetSession" /\ output # Pending /\ output # Null) =>
        LET found == FirstDate(FromSession(input.arg.setCookie))
            expected == IF found.kind = "date" THEN found.at - 1
                        ELSE now + 23
        IN  /\ output.expiresAt = expected
            /\ store # <<>> =>
                  /\ Len(store) = 1
                  /\ store[1].expiresAt = expected
                  /\ store[1].cookie = output.cookie
                  /\ store[1].createdAt = now

\* A login at hour 1 answered with a session cookie that carries no date,
\* followed by another cookie whose date does not parse, was given 23 hours
\* and stored so.
C16_Witness ==
    /\ input.fn = "loginAndGetSession"
    /\ now = 1
    /\ Len(input.arg.setCookie) = 2
    /\ input.arg.setCookie[1].name = SESSION_COOKIE_NAME
    /\ input.arg.setCookie[1].expires.kind = "none"
    /\ input.arg.setCookie[2].expires.kind = "invalid"
    /\ store # <<>>
    /\ store[1].expiresAt = 24

\* A login answered with a session cookie dated hour 30 was stored with
\* expiresAt 29.
C16_WitnessDated ==
    /\ input.fn = "loginAndGetSession"
    /\ FirstDate(FromSession(input.arg.setCookie)) = [kind |-> "date", at |-> 30]
    /\ store # <<>>
    /\ store[1].expiresAt = 29

\* C17: for every instant and configured time zone the target date is
\* today's date in that zone when the local hour is below 13 and tomorrow's
\* when it is 13 or above, the next day being taken in that zone's calendar
\* (month and year ends included), whatever the runtime's own zone is.
C17_TargetDateInConfiguredZone ==
    (input.fn = "targetDate" /\ output # Pending) =>
        LET local == ShiftClock(input.arg.utc, input.arg.offset)
        IN  output.targetDateStr =
                IsoDate(IF local.hour < 13 THEN local.date
                        ELSE NextDay(local.date))

\* The first n of `texts` written one after the other with `sep` between.
RECURSIVE Separated(_, _, _)
Separated(texts, sep, n) ==
    IF n = 0 THEN ""
    ELSE IF n = 1 THEN texts[1]
    ELSE Separated(texts, sep, n - 1) \o sep \o texts[n]

\* C18: for a success result the text is the entries that have items, in
\* their order, each as "<restaurant>: <items separated by ", ">", separated
\* by ". "; entries without items are left out; it is exactly
\* "No lunch ordered" when there is no entry or none has items.  For an
\* error result the text is exactly the error's message.
C18_FormatsEntriesInOrder ==
    (input.fn = "formatLunchResponse" /\ output # Pending) =>
        IF "error" \in DOMAIN input.arg
        THEN output.text = input.arg.error
        ELSE LET kept == SelectSeq(input.arg.lunch, LAMBDA e : e.items # <<>>)
                 lines == [i \in 1..Len(kept) |->
                              kept[i].restaurant \o ": " \o
                              Separated(kept[i].items, ", ", Len(kept[i].items))]
             IN  output.text = IF kept = <<>> THEN "No lunch ordered"
                               ELSE Separated(lines, ". ", Len(lines))

\* Two entries, the first without items: the text is the second alone.
C18_Witness ==
    /\ input.fn = "formatLunchResponse"
    /\ "lunch" \in DOMAIN input.arg
    /\ Len(input.arg.lunch) = 2
    /\ input.arg.lunch[1].items = <<>>
    /\ input.arg.lunch[2].items = <<"Sandwich", "Soup">>
    /\ output = [text |-> "Deli B: Sandwich, Soup"]

\* The upstream's answer signals an authentication or authorization
\* failure: by its HTTP status (401 Unauthorized, 403 Forbidden), or by an
\* error code or message in the body of a success response.
SignalsAuthFailure(resp) ==
    /\ ~resp.throws
    /\ \/ ~resp.ok /\ resp.status \in {401, 403}
       \/ /\ resp.ok
          /\ \E i \in 1..Len(resp.errors) :
                \/ resp.errors[i].code = "UNAUTHENTICATED"
                \/ Includes(resp.errors[i].message, "unauthenticated")
                \/ Includes(resp.errors[i].message, "unauthorized")

\* C19: the query reports Unauthenticated, which is what makes getLunch log
\* in again, exactly when the upstream's answer signals an authentication
\* or authorization failure, by HTTP status or by a code or message in the
\* body; every other non-success HTTP status is reported as an error that
\* is not Unauthenticated.
C19_UnauthenticatedIffAuthSignal ==
    (input.fn = "fetchLunchWithSession" /\ output # Pending) =>
        LET resp == input.arg.resp
        IN  /\ output.shouldLogin <=> SignalsAuthFailure(resp)
            /\ (~resp.throws /\ ~resp.ok /\ ~SignalsAuthFailure(resp)) =>
                  /\ "error" \in DOMAIN output.result
                  /\ ~output.shouldLogin

\* The rows of the table that belong to accounts other than e.
OtherRows(tbl, e) == SelectSeq(tbl, LAMBDA s : s.email # e)

\* C20: a request changes the table only in the put that follows its own
\* successful login, and there only the row of its own account.  Every
\* other step of a request leaves the table as it is: being rejected for
\* authorization or configuration, the get, the query with the cached
\* session whatever its answer, the login whether it fails or succeeds, the
\* retry query.  So a request that ends at the cached query, is rejected,
\* or fails to log in has put nothing, and a row the upstream refused is
\* still there, and still served, until a login succeeds.
C20_OnlyOwnPutChangesStore ==
    /\ [](\A r \in Requests :
            (pc[r] = "done" /\ (\/ calls[r] = <<>>
                                \/ Len(calls[r]) = 2
                                \/ LastCall(r).op = "login")) =>
               CallsOf(r, "put") = {})
    /\ [][\A r \in Requests :
            /\ (pc'[r] # pc[r] /\ pc[r] # "store") => store' = store
            /\ (pc[r] = "tryCached" /\ pc'[r] = "login") =>
                  ByEmail(store', email[r]) = ByEmail(store, email[r])
            /\ (pc[r] = "store" /\ pc'[r] # pc[r]) =>
                  /\ calls[r][Len(calls[r])].op = "login"
                  /\ calls[r][Len(calls[r])].answer.ok
                  /\ OtherRows(store', email[r]) = OtherRows(store, email[r])
                  /\ \A q \in Requests \ {r} : calls'[q] = calls[q]]_vars

\* A request whose cached session was refused and whose credentials were
\* then rejected has ended, and the refused row is still the one get
\* returns.
C20_Witness ==
    \E r \in Requests, e \in Emails :
        /\ pc[r] = "done"
        /\ Len(calls[r]) = 3
        /\ SignalsUnauthenticated(calls[r][2].answer)
        /\ calls[r][3].answer.failure = "Rejected"
        /\ getCachedSession(store, e, now) # Null
        /\ getCachedSession(store, e, now) = lastPut[e]

\* The call threw to getLunch instead of returning.
Threw(call) ==
    /\ "answer" \in DOMAIN call
    /\ "throws" \in DOMAIN call.answer
    /\ call.answer.throws

\* The message of the exception a call threw.
ThrownMessage(call) ==
    IF call.op = "query" THEN "fetch failed" ELSE call.answer.message

\* C21: when a call a request awaits throws (the get, the put, or the
\* query, whose transport failed), the request ends at once with HTTP 500
\* and a JSON body carrying the exception message, and makes no further
\* call, to the upstream or to the cache.  A throw of the query with the
\* cached session is followed by no login; a throw of the retry query comes
\* after the put, and the throwing step leaves the table, with the new
\* session in it, as it was.
C21_ThrowEndsRequestWith500 ==
    /\ [](\A r \in Requests : \A i \in 1..Len(calls[r]) :
            Threw(calls[r][i]) =>
               /\ pc[r] = "done"
               /\ i = Len(calls[r])
               /\ response[r] =
                     JsonError(500, "Unexpected error: "
                                       \o ThrownMessage(calls[r][i]))
               /\ (calls[r][i].op = "query" /\ i = 2) =>
                     /\ CallsOf(r, "login") = {}
                     /\ CallsOf(r, "put") = {}
               /\ (calls[r][i].op = "query" /\ i > 2) =>
                     /\ calls[r][i - 1] = PutCall
                     /\ calls[r][i - 2].op = "login"
                     /\ calls[r][i - 2].answer.ok
                     /\ lastPut[CHOOSE e \in Emails : TRUE] # Null
                     /\ store # <<>>)
    /\ [][\A r \in Requests :
            (Len(calls'[r]) > Len(calls[r])
                /\ Threw(calls'[r][Len(calls'[r])])) =>
               /\ store' = store
               /\ lastPut' = lastPut
               /\ pc'[r] = "done"]_vars

\* The only request so far found no session, logged in, stored the new
\* session, and its retry query threw: it has answered 500 with the
\* exception message, and the table holds the session it stored.
C21_Witness ==
    \E r \in Requests, e \in Emails :
        /\ \A q \in Requests \ {r} : pc[q] = "idle"
        /\ pc[r] = "done"
        /\ Len(calls[r]) = 4
        /\ calls[r][3] = PutCall
        /\ calls[r][4].op = "query" /\ calls[r][4].answer.throws
        /\ response[r] = JsonError(500, "Unexpected error: fetch failed")
        /\ store = <<lastPut[e]>>
        /\ lastPut[e].createdAt = now

====
